---- MODULE Spec2Model ----
(***************************************************************************)
(* The request-handling and streaming-relay pipeline of app/main.py:      *)
(* the two rate-limited POST endpoints, the async generator that relays   *)
(* upstream chunks as server-sent events, and the process-wide metrics     *)
(* dictionary.                                                             *)
(*                                                                         *)
(* All handlers are `async def` and run on one event loop.  A handler      *)
(* runs without interruption until it awaits or, for the generator,        *)
(* yields; the OpenAI client is the synchronous one, so a call to it       *)
(* keeps the event loop (variable `loop`) until it returns.                *)
(***************************************************************************)
EXTENDS Integers, Sequences, FiniteSets, TLC

\* ---------------------------------------------------------------- bounds
MaxReqs == 2          \* request slots that can be in flight at once
MaxFrags == 3         \* chunks one upstream stream delivers at most
MaxBurst == 11        \* requests admitted in one burst (caps total_requests)
MaxServed == 3        \* requests admitted while /metrics is being read

\* ------------------------------------------------------- program constants
RATE_LIMIT == 10      \* settings.RATE_LIMIT = "10/minute"

Reqs == 1..MaxReqs

BLOCKING == "/v1/inference"
STREAM == "/v1/inference/stream"
Endpoints == {BLOCKING, STREAM}

\* Optional[T]: None is the empty sequence, a value v is <<v>>.
None == <<>>
Some(v) == <<v>>

VARIABLES
    metrics,   \* the module-level dict of four counters
    hits,      \* the limiter's storage: requests counted in the current window, per route
    loop,      \* the request whose code is running on the event loop, 0 when it is free
    reqs,      \* per request slot: position in its handler and what it has produced
    stats      \* history: requests admitted / answered with success / with failure

vars == <<metrics, hits, loop, reqs, stats>>

\* ------------------------------------------------------------ request data
\* InferenceRequest: only `stream` decides control flow in the handlers.
InferenceRequest == [stream : BOOLEAN]

\* An upstream usage object.
Usage == [prompt_tokens |-> 3, completion_tokens |-> 1, total_tokens |-> 4]

\* What client.chat.completions.create(stream=False) can return.  The SDK
\* types message.content and response.usage as Optional, and choices as a list.
Completions ==
    { [id |-> "x1", model |-> "m", choices |-> 1, content |-> Some("hello"),
       finish_reason |-> "stop", usage |-> Some(Usage)],
      [id |-> "x2", model |-> "m", choices |-> 1, content |-> None,
       finish_reason |-> "content_filter", usage |-> Some(Usage)],
      [id |-> "x3", model |-> "m", choices |-> 1, content |-> Some("hello"),
       finish_reason |-> "stop", usage |-> None],
      [id |-> "x4", model |-> "m", choices |-> 0, content |-> None,
       finish_reason |-> "stop", usage |-> Some(Usage)] }

\* The well-formed completion alone.
BurstCompletions == { c \in Completions : c.id = "x1" }

\* Exception classes the upstream call can raise, and the messages str(e) gives.
\* RateLimitError, APIResponseValidationError and APIConnectionError are
\* openai.APIError subclasses; "Exception" is any exception that is not.
ExcClasses == {"RateLimitError", "APIResponseValidationError", "APIConnectionError", "Exception"}
ErrMsgs == {"e1", "e2"}
UpstreamErrors == [class : ExcClasses, msg : ErrMsgs]

\* isinstance(e, cls) for the classes the except clauses name.
IsInstance(e, cls) ==
    CASE cls = "RateLimitError" -> e.class = "RateLimitError"
      [] cls = "APIError" -> e.class \in {"RateLimitError", "APIResponseValidationError",
                                            "APIConnectionError"}
      [] cls = "Exception" -> TRUE

\* The chunks an upstream stream can deliver.
Texts == {"", "Hel", "lo"}
Chunks == { [choices |-> 0, content |-> None], [choices |-> 1, content |-> None] }
          \cup { [choices |-> 1, content |-> Some(t)] : t \in Texts }

\* -------------------------------------------------------------- the state
\* A request slot.  pc, status, detail, body and events are the request's
\* position and what the caller has been sent.  The other fields are history:
\*   rq          the request body received, admitted  whether the endpoint function ran,
\*   window_full whether the route's window was full when the request arrived,
\*   calls       calls of client.chat.completions.create made for this request,
\*   up          how the upstream call went: "", "returned", "ended" or the exception class,
\*   opened      whether create(stream=True) returned a stream,
\*   completion  the object create() returned, received  the chunks read off the stream,
\*   kinds       the kind of each event of `events`,
\*   d_*         what this request added to each counter of `metrics`.
IdleReq ==
    [pc |-> "idle", endpoint |-> "", rq |-> None, admitted |-> FALSE, window_full |-> FALSE,
     status |-> 0, detail |-> "", body |-> None,
     calls |-> 0, up |-> "", opened |-> FALSE, completion |-> None,
     received |-> <<>>, events |-> <<>>, kinds |-> <<>>,
     d_total |-> 0, d_succ |-> 0, d_fail |-> 0, d_tok |-> 0]

Init ==
    /\ metrics = [total_requests |-> 0, successful_requests |-> 0,
                  failed_requests |-> 0, total_tokens |-> 0]
    /\ hits = [ep \in Endpoints |-> 0]
    /\ loop = 0
    /\ reqs = [r \in Reqs |-> IdleReq]
    /\ stats = [admitted |-> 0, ok |-> 0, failed |-> 0]


\* ------------------------------------------------------------- bookkeeping
Inc(m, field, n) == [m EXCEPT ![field] = @ + n]

\* Slot q after its handler changed the counters from m to m2: the history
\* fields d_* accumulate what this one request added to each counter.
Charged(q, m, m2) ==
    [q EXCEPT !.d_total = @ + (m2.total_requests - m.total_requests),
              !.d_succ = @ + (m2.successful_requests - m.successful_requests),
              !.d_fail = @ + (m2.failed_requests - m.failed_requests),
              !.d_tok = @ + (m2.total_tokens - m.total_tokens)]

\* ------------------------------------------------------------ the limiter
\* Mutant of LimiterAdmits: the limit is never enforced.
LimiterAdmits_Always(ep) == TRUE

\* @limiter.limit(settings.RATE_LIMIT): the decorator's wrapper checks the
\* route's window before it calls the endpoint function, and raises
\* RateLimitExceeded instead of calling it when the window is full.
LimiterAdmits(ep) == hits[ep] < RATE_LIMIT

\* The handler registered for RateLimitExceeded answers 429.
RATE_LIMIT_EXCEEDED_STATUS == 429

rate_limit_exceeded(r, ep, rq) ==
    /\ loop = 0
    /\ reqs[r].pc = "idle"
    /\ ~LimiterAdmits(ep)
    /\ reqs' = [reqs EXCEPT ![r] = [@ EXCEPT !.pc = "done", !.endpoint = ep,
                                            !.rq = Some(rq),
                                            !.window_full = (hits[ep] >= RATE_LIMIT),
                                            !.status = RATE_LIMIT_EXCEEDED_STATUS,
                                            !.detail = "Rate limit exceeded: 10 per 1 minute"]]
    /\ UNCHANGED <<metrics, hits, loop, stats>>

\* The fixed window of a route ends: its count starts again.
window_expires(ep) ==
    /\ loop = 0
    /\ hits[ep] > 0
    /\ hits' = [hits EXCEPT ![ep] = 0]
    /\ UNCHANGED <<metrics, loop, reqs, stats>>

\* ----------------------------------------------------- the blocking endpoint
\* Mutant of ProcessCompletion: the response reports the two token counts of
\* usage in each other's place.
ProcessCompletion_UsageSwapped(m, res) ==
    IF res.choices = 0
    THEN [metrics |-> m, raised |-> TRUE, body |-> None]
    ELSE LET m1 == Inc(m, "successful_requests", 1) IN
         IF res.usage = None
         THEN [metrics |-> m1, raised |-> TRUE, body |-> None]
         ELSE LET m2 == Inc(m1, "total_tokens", res.usage[1].total_tokens) IN
              IF res.content = None
              THEN [metrics |-> m2, raised |-> TRUE, body |-> None]
              ELSE [metrics |-> m2, raised |-> FALSE,
                    body |-> Some([id |-> res.id, model |-> res.model,
                                   content |-> res.content[1],
                                   finish_reason |-> res.finish_reason,
                                   usage |-> [prompt_tokens |-> res.usage[1].completion_tokens,
                                              completion_tokens |-> res.usage[1].prompt_tokens,
                                              total_tokens |-> res.usage[1].total_tokens]])]

\* Lines 97-119: the code run on the object create() returned.  The result is
\* the counters afterwards and either the response body or an exception.
ProcessCompletion(m, res) ==
    IF res.choices = 0
    THEN \* response.choices[0] raises IndexError
         [metrics |-> m, raised |-> TRUE, body |-> None]
    ELSE LET m1 == Inc(m, "successful_requests", 1) IN
         IF res.usage = None
         THEN \* response.usage.total_tokens raises AttributeError
              [metrics |-> m1, raised |-> TRUE, body |-> None]
         ELSE LET m2 == Inc(m1, "total_tokens", res.usage[1].total_tokens) IN
              IF res.content = None
              THEN \* InferenceResponse(content=None) fails validation (content: str)
                   [metrics |-> m2, raised |-> TRUE, body |-> None]
              ELSE [metrics |-> m2, raised |-> FALSE,
                    body |-> Some([id |-> res.id, model |-> res.model,
                                   content |-> res.content[1],
                                   finish_reason |-> res.finish_reason,
                                   usage |-> [prompt_tokens |-> res.usage[1].prompt_tokens,
                                              completion_tokens |-> res.usage[1].completion_tokens,
                                              total_tokens |-> res.usage[1].total_tokens]])]

\* Mutant of BlockingStatus: upstream throttling answered as a gateway error.
BlockingStatus_Gateway(e) ==
    IF IsInstance(e, "APIError") THEN 502 ELSE 500

\* Lines 121-134: the except clauses, tried in order.
BlockingStatus(e) ==
    IF IsInstance(e, "RateLimitError") THEN 429
    ELSE IF IsInstance(e, "APIError") THEN 502
    ELSE 500

BlockingDetail(e) ==
    IF IsInstance(e, "RateLimitError") THEN "Rate limit exceeded at OpenAI"
    ELSE IF IsInstance(e, "APIError") THEN "LLM service error: " \o e.msg
    ELSE "Internal server error"

\* Mutant of BlockingExcept: the APIError clause does not count the failure.
BlockingExcept_APIErrorNotCounted(m, e) ==
    [metrics |-> IF IsInstance(e, "APIError") /\ ~IsInstance(e, "RateLimitError")
                 THEN m ELSE Inc(m, "failed_requests", 1),
     status |-> BlockingStatus(e), detail |-> BlockingDetail(e)]

BlockingExcept(m, e) ==
    [metrics |-> Inc(m, "failed_requests", 1),
     status |-> BlockingStatus(e), detail |-> BlockingDetail(e)]

\* An exception raised by the handler's own code after create() returned.
InternalError == [class |-> "Exception", msg |-> "internal"]

\* Mutant of generate_inference: the request is counted after the check of
\* request.stream, and the check of request.stream is missing, respectively.
generate_inference_CountAfterModeCheck(r, rq) ==
    /\ loop = 0
    /\ reqs[r].pc = "idle"
    /\ LimiterAdmits(BLOCKING)
    /\ hits' = [hits EXCEPT ![BLOCKING] = @ + 1]
    /\ metrics' = IF rq.stream THEN metrics ELSE Inc(metrics, "total_requests", 1)
    /\ stats' = [stats EXCEPT !.admitted = @ + 1]
    /\ IF rq.stream
       THEN /\ reqs' = [reqs EXCEPT ![r] =
                   [Charged(@, metrics, metrics') EXCEPT
                       !.pc = "done", !.endpoint = BLOCKING, !.rq = Some(rq),
                       !.window_full = (hits[BLOCKING] >= RATE_LIMIT),
                       !.admitted = TRUE, !.status = 400,
                       !.detail = "For streaming responses, use POST /v1/inference/stream"]]
            /\ loop' = 0
       ELSE /\ reqs' = [reqs EXCEPT ![r] =
                   [Charged(@, metrics, metrics') EXCEPT
                       !.pc = "in_call", !.endpoint = BLOCKING, !.rq = Some(rq),
                       !.window_full = (hits[BLOCKING] >= RATE_LIMIT),
                       !.admitted = TRUE, !.calls = @ + 1]]
            /\ loop' = r

generate_inference_NoModeCheck(r, rq) ==
    /\ loop = 0
    /\ reqs[r].pc = "idle"
    /\ LimiterAdmits(BLOCKING)
    /\ hits' = [hits EXCEPT ![BLOCKING] = @ + 1]
    /\ metrics' = Inc(metrics, "total_requests", 1)
    /\ stats' = [stats EXCEPT !.admitted = @ + 1]
    /\ reqs' = [reqs EXCEPT ![r] =
           [Charged(@, metrics, metrics') EXCEPT
               !.pc = "in_call", !.endpoint = BLOCKING, !.rq = Some(rq),
               !.window_full = (hits[BLOCKING] >= RATE_LIMIT),
               !.admitted = TRUE, !.calls = @ + 1]]
    /\ loop' = r

\* Lines 75-95: the handler from its first line to the call of create().
generate_inference(r, rq) ==
    /\ loop = 0
    /\ reqs[r].pc = "idle"
    /\ LimiterAdmits(BLOCKING)
    /\ hits' = [hits EXCEPT ![BLOCKING] = @ + 1]
    /\ metrics' = Inc(metrics, "total_requests", 1)
    /\ stats' = [stats EXCEPT !.admitted = @ + 1]
    /\ IF rq.stream
       THEN /\ reqs' = [reqs EXCEPT ![r] =
                   [Charged(@, metrics, metrics') EXCEPT
                       !.pc = "done", !.endpoint = BLOCKING, !.rq = Some(rq),
                       !.window_full = (hits[BLOCKING] >= RATE_LIMIT),
                       !.admitted = TRUE, !.status = 400,
                       !.detail = "For streaming responses, use POST /v1/inference/stream"]]
            /\ loop' = 0
       ELSE /\ reqs' = [reqs EXCEPT ![r] =
                   [Charged(@, metrics, metrics') EXCEPT
                       !.pc = "in_call", !.endpoint = BLOCKING, !.rq = Some(rq),
                       !.window_full = (hits[BLOCKING] >= RATE_LIMIT),
                       !.admitted = TRUE, !.calls = @ + 1]]
            /\ loop' = r

\* Lines 89-134: create() returns a completion and the handler finishes.
create_returns(r, res) ==
    /\ loop = r
    /\ reqs[r].pc = "in_call"
    /\ LET p == ProcessCompletion(metrics, res)
           x == BlockingExcept(p.metrics, InternalError)
       IN IF p.raised
          THEN /\ metrics' = x.metrics
               /\ reqs' = [reqs EXCEPT ![r] =
                      [Charged(@, metrics, x.metrics) EXCEPT
                          !.pc = "done", !.up = "returned", !.completion = Some(res),
                          !.status = x.status, !.detail = x.detail]]
               /\ stats' = [stats EXCEPT !.failed = @ + 1]
          ELSE /\ metrics' = p.metrics
               /\ reqs' = [reqs EXCEPT ![r] =
                      [Charged(@, metrics, p.metrics) EXCEPT
                          !.pc = "done", !.up = "returned", !.completion = Some(res),
                          !.status = 200, !.body = p.body]]
               /\ stats' = [stats EXCEPT !.ok = @ + 1]
    /\ loop' = 0
    /\ UNCHANGED hits

\* Lines 89-134: create() raises and one except clause answers.
create_raises(r, e) ==
    /\ loop = r
    /\ reqs[r].pc = "in_call"
    /\ LET x == BlockingExcept(metrics, e)
       IN /\ metrics' = x.metrics
          /\ reqs' = [reqs EXCEPT ![r] =
                 [Charged(@, metrics, x.metrics) EXCEPT
                     !.pc = "done", !.up = e.class,
                     !.status = x.status, !.detail = x.detail]]
    /\ stats' = [stats EXCEPT !.failed = @ + 1]
    /\ loop' = 0
    /\ UNCHANGED hits


\* ---------------------------------------------------- the streaming endpoint
\* f"data: {text}\n\n"
SSE(text) == "data: " \o text \o "\n\n"

DONE_EVENT == SSE("[DONE]")

\* Lines 170-183: the text of the in-band error event, by except clause.
StreamErrorEvent(e) ==
    IF IsInstance(e, "RateLimitError") THEN SSE("[ERROR] Rate limit exceeded")
    ELSE IF IsInstance(e, "APIError") THEN SSE("[ERROR] LLM service error: " \o e.msg)
    ELSE SSE("[ERROR] Internal server error")

\* Mutant of Relayed: the test of delta.content is missing.
Relayed_NoContentTest(chunk) ==
    /\ chunk.choices > 0
    /\ chunk.content # None

\* Lines 158-162: whether a chunk is relayed (Python truthiness of
\* chunk.choices and of delta.content).
Relayed(chunk) ==
    /\ chunk.choices > 0
    /\ chunk.content # None
    /\ chunk.content[1] # ""

\* Lines 186-204: the endpoint function.  It counts the request and returns a
\* StreamingResponse around the generator, which has not started yet.
generate_inference_stream(r, rq) ==
    /\ loop = 0
    /\ reqs[r].pc = "idle"
    /\ LimiterAdmits(STREAM)
    /\ hits' = [hits EXCEPT ![STREAM] = @ + 1]
    /\ metrics' = Inc(metrics, "total_requests", 1)
    /\ stats' = [stats EXCEPT !.admitted = @ + 1]
    /\ reqs' = [reqs EXCEPT ![r] =
           [Charged(@, metrics, metrics') EXCEPT
               !.pc = "created", !.endpoint = STREAM, !.rq = Some(rq),
               !.window_full = (hits[STREAM] >= RATE_LIMIT),
               !.admitted = TRUE, !.status = 200]]
    /\ UNCHANGED loop

\* Lines 143-153: the response starts iterating the generator, which runs to
\* its call of create(stream=True).
stream_start(r) ==
    /\ loop = 0
    /\ reqs[r].pc = "created"
    /\ reqs' = [reqs EXCEPT ![r] = [@ EXCEPT !.pc = "opening", !.calls = @ + 1]]
    /\ loop' = r
    /\ UNCHANGED <<metrics, hits, stats>>

\* Line 147-156: create(stream=True) returns the stream; the for loop asks it
\* for its first chunk.
stream_opened(r) ==
    /\ loop = r
    /\ reqs[r].pc = "opening"
    /\ reqs' = [reqs EXCEPT ![r] = [@ EXCEPT !.pc = "pulling", !.opened = TRUE]]
    /\ UNCHANGED <<metrics, hits, loop, stats>>

\* Lines 156-162: the stream delivers a chunk.  A relayed chunk is yielded
\* (the generator suspends and the event loop is free); any other chunk is
\* skipped and the loop asks for the next one.
stream_chunk(r, chunk) ==
    /\ loop = r
    /\ reqs[r].pc = "pulling"
    /\ Len(reqs[r].received) < MaxFrags
    /\ IF Relayed(chunk)
       THEN /\ reqs' = [reqs EXCEPT ![r] =
                   [@ EXCEPT !.received = Append(@, chunk),
                             !.events = Append(@, SSE(chunk.content[1])),
                             !.kinds = Append(@, "content"),
                             !.pc = "yield_content"]]
            /\ loop' = 0
       ELSE /\ reqs' = [reqs EXCEPT ![r] = [@ EXCEPT !.received = Append(@, chunk)]]
            /\ loop' = r
    /\ UNCHANGED <<metrics, hits, stats>>

\* Mutant of stream_ends: the generator returns when the stream ends, without
\* the end marker.
stream_ends_NoSentinel(r) ==
    /\ loop = r
    /\ reqs[r].pc = "pulling"
    /\ reqs' = [reqs EXCEPT ![r] = [@ EXCEPT !.up = "ended", !.pc = "finished"]]
    /\ loop' = 0
    /\ UNCHANGED <<metrics, hits, stats>>

\* Lines 164-165: the stream ends; the generator yields the end marker.
stream_ends(r) ==
    /\ loop = r
    /\ reqs[r].pc = "pulling"
    /\ reqs' = [reqs EXCEPT ![r] =
           [@ EXCEPT !.events = Append(@, DONE_EVENT), !.kinds = Append(@, "done"),
                     !.up = "ended", !.pc = "yield_done"]]
    /\ loop' = 0
    /\ UNCHANGED <<metrics, hits, stats>>

\* Mutant of StreamExcept: the last clause (except Exception) is missing.
StreamExcept_NoCatchAll(q, m, e) ==
    IF IsInstance(e, "RateLimitError") \/ IsInstance(e, "APIError")
    THEN [metrics |-> Inc(m, "failed_requests", 1),
          req |-> [Charged(q, m, Inc(m, "failed_requests", 1)) EXCEPT
                      !.events = Append(@, StreamErrorEvent(e)),
                      !.kinds = Append(@, "error"),
                      !.up = e.class, !.pc = "yield_error"]]
    ELSE [metrics |-> m, req |-> [q EXCEPT !.up = e.class, !.pc = "crashed"]]

\* Lines 170-183: what the except clauses of the generator do with e: the
\* clause that matches counts the failure and yields the error event; an
\* exception no clause matches leaves the generator.
StreamExcept(q, m, e) ==
    IF IsInstance(e, "RateLimitError") \/ IsInstance(e, "APIError") \/ IsInstance(e, "Exception")
    THEN [metrics |-> Inc(m, "failed_requests", 1),
          req |-> [Charged(q, m, Inc(m, "failed_requests", 1)) EXCEPT
                      !.events = Append(@, StreamErrorEvent(e)),
                      !.kinds = Append(@, "error"),
                      !.up = e.class, !.pc = "yield_error"]]
    ELSE [metrics |-> m, req |-> [q EXCEPT !.up = e.class, !.pc = "crashed"]]

\* Lines 147-183: create(stream=True), or the stream while it is iterated,
\* raises; the except clause counts the failure and yields the error event.
stream_raises(r, e) ==
    /\ loop = r
    /\ reqs[r].pc \in {"opening", "pulling"}
    /\ LET x == StreamExcept(reqs[r], metrics, e)
       IN /\ metrics' = x.metrics
          /\ reqs' = [reqs EXCEPT ![r] = x.req]
    /\ stats' = [stats EXCEPT !.failed = @ + 1]
    /\ loop' = 0
    /\ UNCHANGED hits

\* Line 156: the response asks the generator for its next item after a
\* content event; the generator goes back to the stream.
resume_after_content(r) ==
    /\ loop = 0
    /\ reqs[r].pc = "yield_content"
    /\ reqs' = [reqs EXCEPT ![r] = [@ EXCEPT !.pc = "pulling"]]
    /\ loop' = r
    /\ UNCHANGED <<metrics, hits, stats>>

\* Mutant of AfterDone: the success is not counted.
AfterDone_NotCounted(m) == m

\* Lines 167-168: what the generator does when resumed after the end marker.
AfterDone(m) == Inc(m, "successful_requests", 1)

resume_after_done(r) ==
    /\ loop = 0
    /\ reqs[r].pc = "yield_done"
    /\ metrics' = AfterDone(metrics)
    /\ reqs' = [reqs EXCEPT ![r] = [Charged(@, metrics, metrics') EXCEPT !.pc = "finished"]]
    /\ stats' = [stats EXCEPT !.ok = @ + 1]
    /\ UNCHANGED <<hits, loop>>

\* Lines 173, 178, 183: resumed after the error event, the generator returns.
resume_after_error(r) ==
    /\ loop = 0
    /\ reqs[r].pc = "yield_error"
    /\ reqs' = [reqs EXCEPT ![r] = [@ EXCEPT !.pc = "finished"]]
    /\ UNCHANGED <<metrics, hits, loop, stats>>

\* The caller disconnects while the generator is suspended (or not started):
\* the response task is cancelled and the generator is never resumed.
\* GeneratorExit and CancelledError are not Exception subclasses, so no
\* except clause of the generator runs.
disconnect(r) ==
    /\ loop = 0
    /\ reqs[r].pc \in {"created", "yield_content", "yield_done", "yield_error"}
    /\ reqs' = [reqs EXCEPT ![r] = [@ EXCEPT !.pc = "cancelled"]]
    /\ UNCHANGED <<metrics, hits, loop, stats>>

\* The request is over; its slot serves the next request.
Over(q) == q.pc \in {"done", "finished", "cancelled", "crashed"}

release(r) ==
    /\ loop = 0
    /\ Over(reqs[r])
    /\ reqs' = [reqs EXCEPT ![r] = IdleReq]
    /\ UNCHANGED <<metrics, hits, loop, stats>>

\* ------------------------------------------------------- the specification
\* One step of the pipeline for a request of R.  The upstream's answers are
\* drawn from the completions Cs and the exceptions Es (blocking call), and
\* from the chunks Ks and the exceptions SEs (streaming call).
Pipeline(R, Cs, Es, Ks, SEs) ==
    \/ \E r \in R, rq \in InferenceRequest : generate_inference(r, rq)
    \/ \E r \in R, res \in Cs : create_returns(r, res)
    \/ \E r \in R, e \in Es : create_raises(r, e)
    \/ \E r \in R, rq \in InferenceRequest : generate_inference_stream(r, rq)
    \/ \E r \in R : stream_start(r)
    \/ \E r \in R : stream_opened(r)
    \/ \E r \in R, chunk \in Ks : stream_chunk(r, chunk)
    \/ \E r \in R : stream_ends(r)
    \/ \E r \in R, e \in SEs : stream_raises(r, e)
    \/ \E r \in R : resume_after_content(r)
    \/ \E r \in R : resume_after_done(r)
    \/ \E r \in R : resume_after_error(r)
    \/ \E r \in R : disconnect(r)

\* Spec: MaxReqs requests handled concurrently on the event loop; every
\* blocking outcome, and streams of one kind of chunk that end or fail.
OneChunk == { [choices |-> 1, content |-> Some("Hel")] }
OneError == { [class |-> "RateLimitError", msg |-> "e1"] }

Next == Pipeline(Reqs, Completions, UpstreamErrors, OneChunk, OneError)

Spec == Init /\ [][Next]_vars

\* SpecRelay: one request at a time, with every kind of chunk and exception.
NextRelay == Pipeline({1}, Completions, UpstreamErrors, Chunks, UpstreamErrors)

SpecRelay == Init /\ [][NextRelay]_vars

\* SpecLimit: a burst of requests from one address, one after the other, long
\* enough to fill a route's window; the streams deliver no chunk.
Budget == metrics.total_requests < MaxBurst
StreamRequests == { rq \in InferenceRequest : rq.stream }

NextLimit ==
    \/ \E ep \in Endpoints, rq \in InferenceRequest : rate_limit_exceeded(1, ep, rq)
    \/ \E ep \in Endpoints : window_expires(ep)
    \/ \E rq \in InferenceRequest : Budget /\ generate_inference(1, rq)
    \/ \E res \in BurstCompletions : create_returns(1, res)
    \/ \E e \in OneError : create_raises(1, e)
    \/ \E rq \in StreamRequests : Budget /\ generate_inference_stream(1, rq)
    \/ stream_start(1)
    \/ stream_opened(1)
    \/ stream_ends(1)
    \/ \E e \in OneError : stream_raises(1, e)
    \/ resume_after_done(1)
    \/ resume_after_error(1)
    \/ disconnect(1)
    \/ release(1)

SpecLimit == Init /\ [][NextLimit]_vars


\* ------------------------------------------------------- request validation
\* A request body as the caller sends it.  FastAPI builds the InferenceRequest
\* from it before the endpoint function (and the limiter's wrapper around it)
\* is called; a body the model class rejects is answered 422 and nothing of
\* main.py runs.  `messages` is the length of the message list and
\* `temperature` is in tenths (7 is 0.7).
TEMPERATURE_GE == 0       \* Field(ge=0.0)
TEMPERATURE_LE == 20      \* Field(le=2.0)
VALIDATION_ERROR_STATUS == 422

Temperatures == {-1, 0, 7, 20, 21}
RequestBodies == [stream : BOOLEAN, messages : 0..1, temperature : Temperatures]

\* class InferenceRequest: `messages: List[ChatMessage] = Field(...)` is
\* required but has no minimum length; temperature has ge and le.
Validates(b) ==
    /\ b.temperature >= TEMPERATURE_GE
    /\ b.temperature <= TEMPERATURE_LE

request_validation_error(r, ep, b) ==
    /\ loop = 0
    /\ reqs[r].pc = "idle"
    /\ ~Validates(b)
    /\ reqs' = [reqs EXCEPT ![r] = [@ EXCEPT !.pc = "done", !.endpoint = ep,
                                            !.rq = Some(b),
                                            !.status = VALIDATION_ERROR_STATUS]]
    /\ UNCHANGED <<metrics, hits, loop, stats>>

\* SpecValidate: one request with any body, on either endpoint, and every
\* answer of the upstream to it.
NextValidate ==
    \/ \E ep \in Endpoints, b \in RequestBodies : request_validation_error(1, ep, b)
    \/ \E b \in RequestBodies : Validates(b) /\ generate_inference(1, b)
    \/ \E res \in Completions : create_returns(1, res)
    \/ \E e \in UpstreamErrors : create_raises(1, e)
    \/ \E b \in RequestBodies : Validates(b) /\ generate_inference_stream(1, b)
    \/ stream_start(1)
    \/ stream_opened(1)
    \/ \E chunk \in OneChunk : stream_chunk(1, chunk)
    \/ stream_ends(1)
    \/ \E e \in UpstreamErrors : stream_raises(1, e)
    \/ resume_after_content(1)
    \/ resume_after_done(1)
    \/ resume_after_error(1)
    \/ disconnect(1)

SpecValidate == Init /\ [][NextValidate]_vars


\* ------------------------------------------------------------ GET /metrics
METRICS == "/metrics"

\* Mutant of SuccessRate: the division is made whatever total_requests is.
SuccessRate_NoZeroTest(m) ==
    [num |-> m.successful_requests, den |-> m.total_requests]

\* Lines 220-221: successful_requests / total_requests if total_requests > 0
\* else 0.  The quotient is kept as a fraction; 0 is 0/1, and a denominator
\* of 0 is the division that raises ZeroDivisionError.
SuccessRate(m) ==
    IF m.total_requests > 0
    THEN [num |-> m.successful_requests, den |-> m.total_requests]
    ELSE [num |-> 0, den |-> 1]

\* Lines 215-222: the dictionary the handler returns.
MetricsReport(m) ==
    [total_requests |-> m.total_requests,
     successful_requests |-> m.successful_requests,
     failed_requests |-> m.failed_requests,
     total_tokens_processed |-> m.total_tokens,
     success_rate |-> SuccessRate(m)]

\* Lines 207-222: the handler has no await and no limiter: it runs from its
\* first line to its return while it has the event loop.
get_metrics(r) ==
    /\ loop = 0
    /\ reqs[r].pc = "idle"
    /\ reqs' = [reqs EXCEPT ![r] = [@ EXCEPT !.pc = "done", !.endpoint = METRICS,
                                            !.status = 200,
                                            !.body = Some(MetricsReport(metrics))]]
    /\ UNCHANGED <<metrics, hits, loop, stats>>

\* SpecMetrics: up to MaxServed requests, MaxReqs of them at a time, and reads
\* of /metrics between their steps; a slot whose request is over serves again.
\* The completions are a well-formed one and one without content; the streams
\* deliver no chunk.
Served == metrics.total_requests < MaxServed
MetricsCompletions == { c \in Completions : c.id \in {"x1", "x2"} }

NextMetrics ==
    \/ \E r \in Reqs, rq \in InferenceRequest : Served /\ generate_inference(r, rq)
    \/ \E r \in Reqs, res \in MetricsCompletions : create_returns(r, res)
    \/ \E r \in Reqs, e \in OneError : create_raises(r, e)
    \/ \E r \in Reqs, rq \in StreamRequests : Served /\ generate_inference_stream(r, rq)
    \/ \E r \in Reqs : stream_start(r)
    \/ \E r \in Reqs : stream_opened(r)
    \/ \E r \in Reqs : stream_ends(r)
    \/ \E r \in Reqs, e \in OneError : stream_raises(r, e)
    \/ \E r \in Reqs : resume_after_done(r)
    \/ \E r \in Reqs : resume_after_error(r)
    \/ \E r \in Reqs : disconnect(r)
    \/ \E r \in Reqs : get_metrics(r)
    \/ \E r \in Reqs : release(r)

SpecMetrics == Init /\ [][NextMetrics]_vars

\* ------------------------------------------------------------ progress
\* SpecRelayFair: SpecRelay with the progress the runtime gives.  The upstream
\* call is made with the client's timeout, so a call or a wait for the next
\* chunk ends with an answer or an exception; the response task is resumed by
\* the event loop after each event it has sent.  Nothing makes a caller send
\* a request or disconnect.
UpstreamAnswers ==
    \/ \E res \in Completions : create_returns(1, res)
    \/ \E e \in UpstreamErrors : create_raises(1, e)
    \/ stream_opened(1)
    \/ \E chunk \in Chunks : stream_chunk(1, chunk)
    \/ stream_ends(1)
    \/ \E e \in UpstreamErrors : stream_raises(1, e)

ResponseResumes ==
    \/ stream_start(1)
    \/ resume_after_content(1)
    \/ resume_after_done(1)
    \/ resume_after_error(1)

SpecRelayFair ==
    /\ Init /\ [][NextRelay]_vars
    /\ WF_vars(UpstreamAnswers)
    /\ WF_vars(ResponseResumes)

\* SpecWire: one request at a time against an upstream whose chunks carry any
\* text a model can produce, the text of the end marker and of an error
\* message included.
WireTexts == {"Hel", "[DONE]", "[ERROR] Rate limit exceeded"}
WireChunks == { [choices |-> 1, content |-> Some(t)] : t \in WireTexts }

NextWire == Pipeline({1}, BurstCompletions, OneError, WireChunks, OneError)

SpecWire == Init /\ [][NextWire]_vars

\* SpecBlocking: blocking requests only, against an upstream whose completions
\* vary in every field the response is built from.
ShortUsage == [prompt_tokens |-> 2, completion_tokens |-> 0, total_tokens |-> 2]

WellFormedCompletions ==
    [id : {"x1"}, model : {"m", "m2"}, choices : {1}, content : {Some("hello"), Some("")},
     finish_reason : {"stop", "length"}, usage : {Some(Usage), Some(ShortUsage)}]

NextBlocking ==
    \/ \E r \in Reqs, rq \in InferenceRequest : generate_inference(r, rq)
    \/ \E r \in Reqs, res \in Completions \cup WellFormedCompletions : create_returns(r, res)
    \/ \E r \in Reqs, e \in UpstreamErrors : create_raises(r, e)

SpecBlocking == Init /\ [][NextBlocking]_vars

\* ================================================================ properties
Count(seq, k) == Cardinality({ i \in DOMAIN seq : seq[i] = k })
Last(seq) == seq[Len(seq)]

\* usage.total_tokens as the upstream reported it (nothing when it sent no usage).
ReportedTotal(res) == IF res.usage = None THEN 0 ELSE res.usage[1].total_tokens

\* C1: a blocking request with stream=false whose create() call returned a
\* completion (with a choice) added exactly 1 to successful_requests, exactly
\* the reported usage total to total_tokens, and nothing to failed_requests.
C1_BlockingSuccessCounts ==
    \A r \in Reqs :
        LET q == reqs[r] IN
        (/\ q.endpoint = BLOCKING /\ q.pc = "done" /\ q.up = "returned"
         /\ q.completion[1].choices > 0)
        => /\ q.d_succ = 1
           /\ q.d_tok = ReportedTotal(q.completion[1])
           /\ q.d_fail = 0

\* C2: once the upstream call of a streaming request has failed (while being
\* opened or after k >= 0 content events), the event sequence holds exactly
\* one error event, which is its last event, and no done event; the generator
\* is suspended at that event, has returned, or was cancelled there (no
\* exception left it); and the request added exactly 1 to failed_requests and
\* nothing to successful_requests, also when the caller disconnects.
StreamFailed(q) == q.endpoint = STREAM /\ q.up \in ExcClasses

C2_StreamFailureOneErrorEvent ==
    \A r \in Reqs :
        LET q == reqs[r] IN
        StreamFailed(q)
        => /\ q.pc \in {"yield_error", "finished", "cancelled"}
           /\ Count(q.kinds, "error") = 1
           /\ Count(q.kinds, "done") = 0
           /\ Last(q.kinds) = "error"
           /\ Len(q.events) = Len(q.kinds)
           /\ q.d_fail = 1
           /\ q.d_succ = 0

\* C2 witness: the upstream failed after two content events and the caller
\* then disconnected at the error event.
C2_Witness ==
    \E r \in Reqs :
        /\ StreamFailed(reqs[r])
        /\ reqs[r].kinds = <<"content", "content", "error">>
        /\ reqs[r].pc = "cancelled"

\* C3: once the upstream stream of a streaming request has ended, the event
\* sequence holds exactly one done event, which is its last event, and no
\* error event; the request adds nothing to failed_requests; and when the
\* generator has returned it has added exactly 1 to successful_requests
\* (and never more).  This covers a stream without any content event.
C3_NaturalCompletionOneDone ==
    \A r \in Reqs :
        LET q == reqs[r] IN
        (q.endpoint = STREAM /\ q.up = "ended")
        => /\ Count(q.kinds, "done") = 1
           /\ Count(q.kinds, "error") = 0
           /\ Last(q.kinds) = "done"
           /\ Last(q.events) = "data: [DONE]\n\n"
           /\ q.d_fail = 0
           /\ q.d_succ = (IF q.pc = "finished" THEN 1 ELSE 0)
           /\ q.pc \in {"yield_done", "finished", "cancelled"}

\* C3 witness: a stream that delivered chunks without text and then ended; the
\* only event is the done event and the generator has returned.
C3_Witness ==
    \E r \in Reqs :
        /\ reqs[r].up = "ended"
        /\ reqs[r].pc = "finished"
        /\ reqs[r].events = <<"data: [DONE]\n\n">>
        /\ Len(reqs[r].received) = 2

\* C4: at every moment the content events sent are, in order, one event
\* "data: <text>\n\n" for each chunk received so far that has non-empty text;
\* chunks without text add no event; and the only event that can follow the
\* content events is one terminal event, after which nothing is added.
HasText(c) == c.choices > 0 /\ c.content # None /\ c.content[1] # ""

C4_ContentEventsAreFragmentsInOrder ==
    \A r \in Reqs :
        LET q == reqs[r]
            withText == SelectSeq(q.received, HasText)
            n == Len(withText)
        IN q.endpoint = STREAM
           => /\ Len(q.events) = Len(q.kinds)
              /\ Count(q.kinds, "content") = n
              /\ \A i \in 1..n :
                    /\ q.kinds[i] = "content"
                    /\ q.events[i] = "data: " \o withText[i].content[1] \o "\n\n"
              /\ Len(q.kinds) <= n + 1
              /\ Len(q.kinds) = n + 1 => Last(q.kinds) \in {"done", "error"}

\* C4 witness: chunks "Hel", "" and "lo" were received and the stream ended;
\* the caller was sent Hel, lo and the done sentinel.
C4_Witness ==
    \E r \in Reqs :
        /\ reqs[r].pc = "finished"
        /\ Len(reqs[r].received) = 3
        /\ reqs[r].received[2].content = Some("")
        /\ reqs[r].events = <<"data: Hel\n\n", "data: lo\n\n", "data: [DONE]\n\n">>

\* C5: when every admitted request has been answered, each with success or
\* with failure, the counters have grown by the number of requests admitted,
\* of requests that succeeded and of requests that failed.
Quiescent == loop = 0 /\ \A r \in Reqs : reqs[r].pc = "idle" \/ Over(reqs[r])

C5_ConcurrentCounts ==
    (Quiescent /\ stats.ok + stats.failed = stats.admitted)
    => /\ metrics.total_requests = stats.admitted
       /\ metrics.successful_requests = stats.ok
       /\ metrics.failed_requests = stats.failed


\* C6 (as stated): every invocation of a request entry point, whatever its
\* outcome (the limiter's rejection included), has added exactly 1 to
\* total_requests.
Invoked(q) == q.pc # "idle"

C7_RejectedAtAdmission ==
    \A r \in Reqs :
        LET q == reqs[r] IN
        (Invoked(q) /\ q.window_full)
        => /\ q.pc = "done"
           /\ q.status = 429
           /\ ~q.admitted
           /\ q.calls = 0
           /\ q.d_succ = 0
           /\ q.d_fail = 0

\* C7 witness: a request to the streaming endpoint was rejected by the limiter.
C7_Witness ==
    \E r \in Reqs :
        /\ reqs[r].pc = "done" /\ reqs[r].endpoint = STREAM
        /\ reqs[r].window_full /\ reqs[r].status = 429
        /\ hits[STREAM] = RATE_LIMIT

\* C8: a request with stream=true that the limiter lets through to the
\* blocking endpoint is answered at once with status 400 and the message that
\* names the streaming endpoint; create() is not called for it, and it adds 1
\* to total_requests and nothing to successful_requests or failed_requests.
C8_StreamFlagOnBlockingEndpoint ==
    \A r \in Reqs :
        LET q == reqs[r] IN
        (Invoked(q) /\ q.endpoint = BLOCKING /\ q.rq = Some([stream |-> TRUE])
            /\ ~q.window_full)
        => /\ q.pc = "done"
           /\ q.status = 400
           /\ q.detail = "For streaming responses, use POST /v1/inference/stream"
           /\ q.calls = 0
           /\ q.d_total = 1
           /\ q.d_succ = 0
           /\ q.d_fail = 0

\* C8 witness: such a request was answered after earlier requests had been
\* counted as a success and as a failure.
C8_Witness ==
    \E r \in Reqs :
        /\ reqs[r].endpoint = BLOCKING /\ reqs[r].rq = Some([stream |-> TRUE])
        /\ reqs[r].status = 400
        /\ metrics.successful_requests > 0 /\ metrics.failed_requests > 0

\* C9 (as stated): on the blocking endpoint an upstream rate-limit failure is
\* answered with a bad-gateway-class status that differs from the status of
\* the local limiter's rejection.
GatewayStatuses == {502, 503, 504}

StatusByClass(class) ==
    CASE class = "RateLimitError" -> 429
      [] class = "APIResponseValidationError" -> 502
      [] class = "APIConnectionError" -> 502
      [] class = "Exception" -> 500

C10_BlockingFailureSurfacedOnce ==
    \A r \in Reqs :
        LET q == reqs[r] IN
        (q.endpoint = BLOCKING /\ q.up \in ExcClasses)
        => /\ q.pc = "done"
           /\ q.calls = 1
           /\ q.d_fail = 1
           /\ q.d_succ = 0
           /\ q.d_tok = 0
           /\ q.status = StatusByClass(q.up)
           /\ q.body = None

\* C10 witness: two blocking requests failed, one with a connection error
\* whose message is "e1" and one with a connection error whose message is
\* "e2"; both got 502.
C10_Witness ==
    \E r1, r2 \in Reqs :
        /\ r1 # r2
        /\ reqs[r1].endpoint = BLOCKING /\ reqs[r2].endpoint = BLOCKING
        /\ reqs[r1].up = "APIConnectionError" /\ reqs[r2].up = "APIConnectionError"
        /\ reqs[r1].detail # reqs[r2].detail
        /\ reqs[r1].status = 502 /\ reqs[r2].status = 502
        /\ metrics.failed_requests = 2

\* C11: a request whose message list is empty or whose temperature is outside
\* [0.0, 2.0] is rejected before dispatch on either endpoint: its endpoint
\* function does not run, create() is never called for it and it adds nothing
\* to failed_requests.
Malformed(b) ==
    \/ b.messages = 0
    \/ b.temperature < TEMPERATURE_GE
    \/ b.temperature > TEMPERATURE_LE

C11_MalformedRejectedBeforeDispatch ==
    \A r \in Reqs :
        LET q == reqs[r] IN
        (Invoked(q) /\ q.rq # None /\ Malformed(q.rq[1]))
        => /\ ~q.admitted
           /\ q.calls = 0
           /\ q.d_fail = 0

\* C12: the text a caller is sent for a failure (the detail of the blocking
\* error answer, the in-band error event of a stream) depends only on the
\* failure's category: two requests to the same endpoint whose upstream calls
\* failed in the same category were sent the same text, whatever the message
\* of the upstream's exception.
Category(class) ==
    CASE class = "RateLimitError" -> "upstream_rate_limit"
      [] class \in {"APIResponseValidationError", "APIConnectionError"} -> "upstream_failure"
      [] class = "Exception" -> "internal"

ErrorText(q) == IF q.endpoint = BLOCKING THEN q.detail ELSE Last(q.events)

C12_ErrorTextDependsOnCategoryOnly ==
    \A r1, r2 \in Reqs :
        LET q1 == reqs[r1]
            q2 == reqs[r2]
        IN (/\ q1.endpoint = q2.endpoint
            /\ q1.up \in ExcClasses /\ q2.up \in ExcClasses
            /\ Category(q1.up) = Category(q2.up))
           => /\ ErrorText(q1) = ErrorText(q2)
              /\ q1.status = q2.status

\* C13: what a read of /metrics returns is one counter state of the program,
\* the one at the moment of the read, whatever requests are in flight: the
\* four counters returned are the four counters of that state, success_rate is
\* successful_requests / total_requests of the same state, it is never above
\* 1, and it is 0, with no division made, when total_requests is 0.
IsRead(q) == q.endpoint = METRICS /\ q.pc = "done"

C13_RateOfSnapshot ==
    \A r \in Reqs :
        IsRead(reqs[r])
        => LET s == reqs[r].body[1]
               rate == s.success_rate
           IN /\ rate.den > 0
              /\ rate.num <= rate.den
              /\ s.total_requests = 0 => rate.num = 0
              /\ s.total_requests > 0
                 => rate.num * s.total_requests = s.successful_requests * rate.den
              /\ s.successful_requests <= s.total_requests
              /\ s.total_requests <= metrics.total_requests
              /\ s.successful_requests <= metrics.successful_requests
              /\ s.failed_requests <= metrics.failed_requests
              /\ s.total_tokens_processed <= metrics.total_tokens

C13_ReadStep ==
    \A r \in Reqs :
        (~IsRead(reqs[r]) /\ IsRead(reqs'[r]))
        => LET s == reqs'[r].body[1]
           IN /\ s.total_requests = metrics.total_requests
              /\ s.successful_requests = metrics.successful_requests
              /\ s.failed_requests = metrics.failed_requests
              /\ s.total_tokens_processed = metrics.total_tokens
              /\ metrics' = metrics

C13_MetricsReadIsOneCounterState == []C13_RateOfSnapshot /\ [][C13_ReadStep]_vars

\* C13 witness: /metrics was read while another request was suspended in its
\* stream, after one success and one failure had been counted; the rate
\* returned is 1/3.
C13_Witness ==
    \E r, r2 \in Reqs :
        /\ IsRead(reqs[r])
        /\ reqs[r2].pc = "yield_done"
        /\ reqs[r].body[1].success_rate = [num |-> 1, den |-> 3]
        /\ reqs[r].body[1].failed_requests = 1

\* C14: while one request is suspended in its upstream call (create() of a
\* blocking request, create(stream=True) or the wait for the next chunk of a
\* stream), another request can be admitted: on a free slot the endpoint
\* function of either endpoint can run.
InUpstreamCall(q) == q.pc \in {"in_call", "opening", "pulling"}

C14_OthersAdmittedDuringUpstreamCall ==
    \A r, r2 \in Reqs :
        (r # r2 /\ InUpstreamCall(reqs[r]) /\ reqs[r2].pc = "idle")
        => /\ ENABLED (\E rq \in InferenceRequest : generate_inference(r2, rq))
           /\ ENABLED (\E rq \in InferenceRequest : generate_inference_stream(r2, rq))

\* C15: when the caller has disconnected from a stream, no further chunk is
\* read off the upstream stream, and an upstream stream that was open at the
\* disconnect is eventually closed.
HoldsUpstream(q) == q.opened /\ q.up = ""

C15_NoPullAfterDisconnect ==
    \A r \in Reqs :
        reqs[r].pc = "cancelled" => reqs'[r].received = reqs[r].received

C15_DisconnectReleasesUpstream ==
    /\ [][C15_NoPullAfterDisconnect]_vars
    /\ \A r \in Reqs :
          (reqs[r].pc = "cancelled" /\ HoldsUpstream(reqs[r])) ~> ~HoldsUpstream(reqs[r])

\* C16: the wire events of a stream can be decoded: the event of a content
\* fragment is never the event of the end marker nor the event of an error,
\* so reading each event back gives the kind of event that was sent.
ErrorEvents == { StreamErrorEvent(e) : e \in UpstreamErrors }

Decode(event) ==
    IF event = DONE_EVENT THEN "done"
    ELSE IF event \in ErrorEvents THEN "error"
    ELSE "content"

C16_WireEventsDecodeToKinds ==
    \A r \in Reqs :
        LET q == reqs[r] IN
        q.endpoint = STREAM
        => \A i \in DOMAIN q.events : Decode(q.events[i]) = q.kinds[i]

\* C17: the body of a blocking request answered 200 is the completion that
\* create() returned for it, field by field: id, model, the content of the
\* first choice, its finish reason, and the three token counts of usage.
C17_ResponseCarriesCompletion ==
    \A r \in Reqs :
        LET q == reqs[r] IN
        (q.endpoint = BLOCKING /\ q.pc = "done" /\ q.status = 200)
        => /\ q.completion # None
           /\ q.body # None
           /\ LET res == q.completion[1]
                  out == q.body[1]
              IN /\ res.choices > 0 /\ res.content # None /\ res.usage # None
                 /\ out.id = res.id
                 /\ out.model = res.model
                 /\ out.content = res.content[1]
                 /\ out.finish_reason = res.finish_reason
                 /\ out.usage.prompt_tokens = res.usage[1].prompt_tokens
                 /\ out.usage.completion_tokens = res.usage[1].completion_tokens
                 /\ out.usage.total_tokens = res.usage[1].total_tokens
                 /\ DOMAIN out = {"id", "model", "content", "finish_reason", "usage"}

\* C17 witness: two requests answered 200 with different completions: one with
\* empty content, finish reason "length" and the short usage, one with
\* "hello", "stop" and the other usage.
C17_Witness ==
    \E r1, r2 \in Reqs :
        /\ reqs[r1].status = 200 /\ reqs[r2].status = 200
        /\ reqs[r1].body # None /\ reqs[r2].body # None
        /\ reqs[r1].body[1].content = "" /\ reqs[r1].body[1].finish_reason = "length"
        /\ reqs[r1].body[1].usage.total_tokens = 2 /\ reqs[r1].body[1].model = "m2"
        /\ reqs[r2].body[1].content = "hello" /\ reqs[r2].body[1].finish_reason = "stop"
        /\ reqs[r2].body[1].usage.prompt_tokens = 3

\* C18: no request adds to both successful_requests and failed_requests, an
\* exception raised after the success was counted included, and so
\* successful_requests + failed_requests never exceeds total_requests.
C18_NeverSuccessAndFailure ==
    /\ \A r \in Reqs : ~(reqs[r].d_succ > 0 /\ reqs[r].d_fail > 0)
    /\ metrics.successful_requests + metrics.failed_requests <= metrics.total_requests

\* C19: a stream whose caller stays connected ends, and ends after a terminal
\* event: the generator eventually returns (or the caller has disconnected),
\* a generator that has returned sent exactly one terminal event, as its last
\* event, and no exception ever leaves the generator.
Terminal(k) == k \in {"done", "error"}

C19_EndsOnlyAfterTerminalEvent ==
    \A r \in Reqs :
        LET q == reqs[r] IN
        q.endpoint = STREAM
        => /\ q.pc # "crashed"
           /\ q.pc = "finished"
              => /\ q.kinds # <<>>
                 /\ Terminal(Last(q.kinds))
                 /\ Count(q.kinds, "done") + Count(q.kinds, "error") = 1

C19_StreamTerminates ==
    /\ []C19_EndsOnlyAfterTerminalEvent
    /\ \A r \in Reqs :
          (reqs[r].endpoint = STREAM /\ reqs[r].pc # "idle")
          ~> (reqs[r].pc = "finished" \/ reqs[r].pc = "cancelled")

\* C19 witness: the upstream delivered MaxFrags chunks, the last of them with
\* text, and then failed; the caller stayed connected and the generator
\* returned after the error event.
C19_Witness ==
    \E r \in Reqs :
        /\ reqs[r].pc = "finished"
        /\ Len(reqs[r].received) = MaxFrags
        /\ Last(reqs[r].kinds) = "error"
        /\ Count(reqs[r].kinds, "content") >= 1
        /\ reqs[r].up = "APIConnectionError"

\* C20: a streaming request adds nothing to total_tokens, whether its stream
\* ended, failed or was cancelled; the only requests that have added to
\* total_tokens are blocking requests that succeeded (answered 200).
C20_StreamsLeaveTokens ==
    \A r \in Reqs : reqs[r].endpoint = STREAM => reqs[r].d_tok = 0

C20_TokensOnlyFromSuccessfulBlocking ==
    \A r \in Reqs :
        LET q == reqs[r] IN
        q.d_tok # 0 => (q.endpoint = BLOCKING /\ q.pc = "done" /\ q.status = 200)

C20_TokensFrame ==
    /\ C20_StreamsLeaveTokens
    /\ C20_TokensOnlyFromSuccessfulBlocking

====
